---- MODULE Spec2Model ----
(***************************************************************************)
(* Model of src/server.js: a multi-room chat server on Socket.IO.          *)
(*                                                                         *)
(* State: the Socket.IO adapter's room table (room -> socket ids), the     *)
(* module-level roomHistory map, every socket's connection state and       *)
(* socket.data.username, and the async handlers suspended at an await.     *)
(* One action per handler segment: a handler without await is one action,  *)
(* a handler with awaits is one action per segment between awaits.         *)
(*                                                                         *)
(* JavaScript values are records [t |-> type, v |-> value] so that the     *)
(* truthiness and typeof tests of the code can be computed, not assumed.   *)
(*                                                                         *)
(* Socket.IO 4 is the library the code is written for (socket.data,        *)
(* allSockets): socket.join and socket.leave change the adapter at once,   *)
(* a broadcast is written to the sockets that are in the room when emit    *)
(* is called, allSockets() collects its set when it is called, a closing   *)
(* socket leaves all its rooms before "disconnect" is emitted, and no      *)
(* packet is dispatched to a handler of a socket that is not connected.    *)
(* A suspended handler may resume after any number of other handler        *)
(* segments, of any socket (with the Redis adapter an await spans I/O).    *)
(***************************************************************************)
EXTENDS Integers, Sequences, FiniteSets, TLC

\* ---------------------------------------------------------------- bounds
\* accepted messages per behaviour of Spec
MaxMsgs == 1
\* accepted messages per behaviour of SpecHist (past ROOM_HISTORY_LIMIT)
MaxHistMsgs == 102
MaxOrderMsgs == 2

\* the connections of one behaviour; a socket id names one connection
Sessions == {"s1", "s2"}

\* ------------------------------------------------------------- JS values
Undefined == [t |-> "undefined", v |-> ""]
Null == [t |-> "null", v |-> ""]
Str(x) == [t |-> "string", v |-> x]
Num(x) == [t |-> "number", v |-> x]

\* !x of JavaScript, negated: "", 0, null and undefined are falsy
Truthy(x) ==
  CASE x.t = "undefined" -> FALSE
    [] x.t = "null" -> FALSE
    [] x.t = "string" -> x.v # ""
    [] x.t = "number" -> x.v # "0"
    [] OTHER -> TRUE

\* a guard without the typeof test
IsStringAny(x) == TRUE

\* typeof x === "string"
IsString(x) == x.t = "string"

\* socket.id, as a room key (every socket is in the room named by its id)
SocketId(s) == Str(s)

\* ------------------------------------------------- handshake user names
\* auth.username: a string is a tuple of characters, so that trim() is
\* computed
AuthUndefined == [t |-> "undefined", v |-> <<>>]
AuthNum == [t |-> "number", v |-> <<"7">>]
AuthStr(cs) == [t |-> "string", v |-> cs]

RECURSIVE TrimLeft(_)
TrimLeft(cs) ==
  IF cs # <<>> /\ Head(cs) = " " THEN TrimLeft(Tail(cs)) ELSE cs

RECURSIVE TrimRight(_)
TrimRight(cs) ==
  IF cs # <<>> /\ cs[Len(cs)] = " "
  THEN TrimRight(SubSeq(cs, 1, Len(cs) - 1))
  ELSE cs

\* String.prototype.trim
Trim(cs) == TrimRight(TrimLeft(cs))

\* the guard of io.use without the trim() test
InvalidUsernameNoTrim(a) ==
  \/ a.t = "undefined"
  \/ a.t = "string" /\ a.v = <<>>
  \/ a.t # "string"

\* the guard of io.use: !username || typeof username !== "string" ||
\* username.trim() === ""
InvalidUsername(a) ==
  \/ a.t = "undefined"
  \/ a.t = "string" /\ a.v = <<>>
  \/ a.t # "string"
  \/ Trim(a.v) = <<>>

\* ----------------------------------------------------------- input sets
R1 == Str("r1")
R2 == Str("r2")

\* the keys of the adapter's room table and of roomHistory: every value
\* a client sends as a room, and every socket id
RoomKeys == {R1, R2, Str(""), Undefined, Num("7")} \cup {SocketId(s) : s \in Sessions}

\* the payload of a "message" request: undefined, or an object
NoPayload == [t |-> "undefined", room |-> Undefined, text |-> Undefined,
              meta |-> Undefined, author |-> <<>>]
Payload(room, text, meta, author) ==
  [t |-> "object", room |-> room, text |-> text, meta |-> meta, author |-> author]

\* the payload of a "typing" request
TypingPayload(room, isTyping) == [t |-> "object", room |-> room, isTyping |-> isTyping]
NoTypingPayload == [t |-> "undefined", room |-> Undefined, isTyping |-> Undefined]

\* the requests of Spec
AuthInputs(s) ==
  {AuthStr(<<" ">>), IF s = "s1" THEN AuthStr(<<"a">>) ELSE AuthStr(<<" ", "b">>)}
JoinInputs == {R1, R2, Undefined}
LeaveInputs == {R1, R2}
HistoryInputs == {R1}
MessagePayloads ==
  {NoPayload,
   Payload(R1, Str("hi"), Str("m"), <<"z">>),
   Payload(SocketId("s2"), Str("hi"), Undefined, <<>>)}
TypingPayloads == {TypingPayload(R1, Str("y"))}

\* ---------------------------------------------------------------- state
VARIABLES
  conn,         \* socket -> "new" | "refused" | "connected" | "disconnected"
  auth,         \* socket -> the auth.username it presented at the handshake
  username,     \* socket -> socket.data.username
  rooms,        \* the adapter: room key -> set of socket ids
  roomHistory,  \* room key -> sequence of messages (<<>> when absent)
  pending,      \* async handlers suspended at an await
  nextId,       \* number of messages built so far (the source of msg.id)
  sent,         \* log: every message pushed, in push order
  crashed,      \* an exception escaped a handler: the process is gone
  last,         \* what the last handler segment did (its ack and emits)
  leaveLog,     \* log: the acks of one socket's "leave" requests for one
                \* room that ran back to back, nothing else in between
  inbox         \* log: socket -> the "message" events written to it, in order

vars == <<conn, auth, username, rooms, roomHistory, pending, nextId, sent,
          crashed, last, leaveLog, inbox>>

NoMsg == [id |-> 0, room |-> Undefined, text |-> Undefined, author |-> <<>>,
          meta |-> Null]

\* the observation of one handler segment
NoLast ==
  [op |-> "init", s |-> "", room |-> Undefined, acked |-> FALSE, ok |-> FALSE,
   memberCount |-> 0, sockets |-> {}, history |-> <<>>, msg |-> NoMsg,
   emits |-> {}, wasMember |-> FALSE, wasIn |-> {}, payload |-> NoPayload]

\* one emit: the event, its room, the user in its payload, the message in
\* its payload, and the sockets it is written to
Emit(event, room, user, msg, to) ==
  [event |-> event, room |-> room, user |-> user, msg |-> msg, to |-> to]

\* no "leave" chain under way
NoLeave ==
  [s |-> "", room |-> Undefined, acks |-> 0, ok |-> FALSE, memberCount |-> 0,
   members |-> {}, wasMember |-> FALSE, firstOk |-> FALSE, firstCount |-> 0,
   firstMembers |-> {}, firstWasMember |-> FALSE]

Init ==
  /\ conn = [s \in Sessions |-> "new"]
  /\ auth = [s \in Sessions |-> AuthUndefined]
  /\ username = [s \in Sessions |-> <<>>]
  /\ rooms = [r \in RoomKeys |-> {}]
  /\ roomHistory = [r \in RoomKeys |-> <<>>]
  /\ pending = {}
  /\ nextId = 0
  /\ sent = <<>>
  /\ crashed = FALSE
  /\ last = NoLast
  /\ leaveLog = NoLeave
  /\ inbox = [s \in Sessions |-> <<>>]

\* ------------------------------------------------------ Socket.IO adapter
\* a join that toggles: it takes the socket out when it is in the room
AddAllToggle(rms, s, room) ==
  [rms EXCEPT ![room] = IF s \in @ THEN @ \ {s} ELSE @ \cup {s}]

\* adapter.addAll(id, {room}), called by socket.join(room)
AddAll(rms, s, room) == [rms EXCEPT ![room] = @ \cup {s}]

\* a leave that toggles: it adds the socket when it is not in the room
DelToggle(rms, s, room) ==
  [rms EXCEPT ![room] = IF s \in @ THEN @ \ {s} ELSE @ \cup {s}]

\* adapter.del(id, room), called by socket.leave(room)
Del(rms, s, room) == [rms EXCEPT ![room] = @ \ {s}]

\* a close that does not leave the rooms
DelAllNothing(rms, s) == rms

\* adapter.delAll(id), called by socket.leaveAll() when the socket closes,
\* before the "disconnect" event is emitted
DelAll(rms, s) == [r \in RoomKeys |-> rms[r] \ {s}]

\* the socket.rooms getter: the rooms the adapter has the socket in
SocketRooms(rms, s) == {r \in RoomKeys : s \in rms[r]}

\* the sockets a broadcast to `room` is written to, and the sockets
\* allSockets() collects: the ids of the room that are not excepted and
\* still are sockets of the namespace
Apply(rms, cn, room, except) ==
  {x \in rms[room] : x \notin except /\ cn[x] = "connected"}

\* an emit to the whole namespace (io.emit for io.in(room).emit)
InRoomEverybody(rms, cn, room) == {x \in Sessions : cn[x] = "connected"}

\* a broadcast that skips the sockets whose join is not acknowledged yet
InRoomSettled(rms, cn, room) ==
  {x \in Apply(rms, cn, room, {}) :
     \A p \in pending : ~(p.op = "join" /\ p.s = x /\ p.room = room)}

\* io.in(room).emit(...): nobody is excepted
InRoom(rms, cn, room) == Apply(rms, cn, room, {})

\* a broadcast that does not except the socket (io.in(room) for socket.to(room))
ToRoomAll(rms, cn, room, s) == Apply(rms, cn, room, {})

\* socket.to(room).emit(...): the socket itself is excepted
ToRoom(rms, cn, room, s) == Apply(rms, cn, room, {s})

\* the others of the room (socket.to(room) for io.in(room))
AllSocketsOthers(rms, cn, room, s) == Apply(rms, cn, room, {s})

\* io.in(room).allSockets(), called by `s` right after its socket.join:
\* the set is collected when the call is made, the promise only hands it
\* over later
AllSocketsAfterJoin(rms, cn, room, s) == Apply(rms, cn, room, {})

\* a socket's packets are dispatched to its handlers only while it is
\* connected
Dispatchable(s) == ~crashed /\ conn[s] = "connected"

\* --------------------------------------------------------------- history
ROOM_HISTORY_LIMIT == 100

\* pushRoomMessage without the eviction
pushRoomMessageNoShift(hist, room, msg) ==
  [hist EXCEPT ![room] = Append(@, msg)]

\* pushRoomMessage evicting the newest entry (pop for shift)
pushRoomMessagePop(hist, room, msg) ==
  LET arr == Append(hist[room], msg)
  IN [hist EXCEPT ![room] = IF Len(arr) > ROOM_HISTORY_LIMIT
                            THEN SubSeq(arr, 1, Len(arr) - 1) ELSE arr]

\* pushRoomMessage evicting one entry too early (>= for >)
pushRoomMessageEarly(hist, room, msg) ==
  LET arr == Append(hist[room], msg)
  IN [hist EXCEPT ![room] = IF Len(arr) >= ROOM_HISTORY_LIMIT THEN Tail(arr) ELSE arr]

\* pushRoomMessage putting the entry in front (unshift for push)
pushRoomMessageFront(hist, room, msg) ==
  LET arr == <<msg>> \o hist[room]
  IN [hist EXCEPT ![room] = IF Len(arr) > ROOM_HISTORY_LIMIT
                            THEN SubSeq(arr, 1, Len(arr) - 1) ELSE arr]

pushRoomMessage(hist, room, msg) ==
  LET arr == Append(hist[room], msg)
  IN [hist EXCEPT ![room] = IF Len(arr) > ROOM_HISTORY_LIMIT THEN Tail(arr) ELSE arr]

\* -------------------------------------------------------------- handshake
\* io.use(...) and the "connection" callback
Connect(s, a) ==
  /\ ~crashed
  /\ conn[s] = "new"
  /\ auth' = [auth EXCEPT ![s] = a]
  /\ IF InvalidUsername(a)
     THEN /\ conn' = [conn EXCEPT ![s] = "refused"]
          /\ last' = [NoLast EXCEPT !.op = "refused", !.s = s]
          /\ UNCHANGED <<username, rooms>>
     ELSE /\ conn' = [conn EXCEPT ![s] = "connected"]
          /\ username' = [username EXCEPT ![s] = Trim(a.v)]
          /\ rooms' = AddAll(rooms, s, SocketId(s))
          /\ last' = [NoLast EXCEPT !.op = "connected", !.s = s,
                        !.emits = {Emit("connected", Undefined, Trim(a.v), NoMsg, {s})}]
  /\ UNCHANGED <<roomHistory, pending, nextId, sent, crashed>>

\* ------------------------------------------------------------------- join
\* a suspended handler: its kind, socket and room, the set its awaited
\* promise resolves to, and whether the socket was in the room when the
\* handler started
Pending(op, s, room, sockets, wasMember) ==
  [op |-> op, s |-> s, room |-> room, sockets |-> sockets, wasMember |-> wasMember]

\* "join", up to its await
JoinStart(s, room) ==
  /\ Dispatchable(s)
  /\ IF ~Truthy(room) \/ ~IsString(room)
     THEN /\ last' = [NoLast EXCEPT !.op = "join", !.s = s, !.room = room,
                        !.acked = TRUE, !.ok = FALSE]
          /\ UNCHANGED <<rooms, pending>>
     ELSE LET joined == AddAll(rooms, s, room)
              p == Pending("join", s, room, AllSocketsAfterJoin(joined, conn, room, s),
                           s \in rooms[room])
          IN /\ rooms' = joined
             /\ pending' = pending \cup {p}
             /\ last' = [NoLast EXCEPT !.op = "join", !.s = s, !.room = room,
                           !.wasMember = s \in rooms[room],
                           !.emits = {Emit("user_joined", room, username[s], NoMsg,
                                           ToRoom(joined, conn, room, s))}]
  /\ UNCHANGED <<conn, auth, username, roomHistory, nextId, sent, crashed>>

\* "join", after its await: the count is the size of the awaited set, the
\* history is read now
JoinResume(p) ==
  /\ ~crashed
  /\ p \in pending
  /\ p.op = "join"
  /\ pending' = pending \ {p}
  /\ last' = [NoLast EXCEPT !.op = "join_ack", !.s = p.s, !.room = p.room,
                !.acked = TRUE, !.ok = TRUE, !.sockets = p.sockets,
                !.memberCount = Cardinality(p.sockets),
                !.history = roomHistory[p.room], !.wasMember = p.wasMember]
  /\ UNCHANGED <<conn, auth, username, rooms, roomHistory, nextId, sent, crashed>>

\* ------------------------------------------------------------------ leave
\* "leave", up to its first await (await socket.leave(room))
LeaveStart(s, room) ==
  /\ Dispatchable(s)
  /\ pending' = pending \cup {Pending("leave", s, room, {}, s \in rooms[room])}
  /\ rooms' = Del(rooms, s, room)
  /\ last' = [NoLast EXCEPT !.op = "leave", !.s = s, !.room = room,
                !.wasMember = s \in rooms[room]]
  /\ UNCHANGED <<conn, auth, username, roomHistory, nextId, sent, crashed>>

\* "leave", between its awaits: emit "user_left", call allSockets()
LeaveEmit(p) ==
  /\ ~crashed
  /\ p \in pending
  /\ p.op = "leave"
  /\ pending' = (pending \ {p})
                  \cup {[p EXCEPT !.op = "leave_count",
                                  !.sockets = InRoom(rooms, conn, p.room)]}
  /\ last' = [NoLast EXCEPT !.op = "leave_emit", !.s = p.s, !.room = p.room,
                !.wasMember = p.wasMember,
                !.emits = {Emit("user_left", p.room, username[p.s], NoMsg,
                                ToRoom(rooms, conn, p.room, p.s))}]
  /\ UNCHANGED <<conn, auth, username, rooms, roomHistory, nextId, sent, crashed>>

\* "leave", after its second await: the acknowledgment
LeaveAck(p) ==
  /\ ~crashed
  /\ p \in pending
  /\ p.op = "leave_count"
  /\ pending' = pending \ {p}
  /\ last' = [NoLast EXCEPT !.op = "leave_ack", !.s = p.s, !.room = p.room,
                !.acked = TRUE, !.ok = TRUE, !.sockets = p.sockets,
                !.memberCount = Cardinality(p.sockets), !.wasMember = p.wasMember]
  /\ UNCHANGED <<conn, auth, username, rooms, roomHistory, nextId, sent, crashed>>

\* ---------------------------------------------------------------- message
\* the message object built by the "message" handler (id and ts come from
\* the clock and Math.random: the id is modelled as a fresh number, ts is
\* left out)
\* the message with the author the payload names
BuildMessagePayloadAuthor(s, payload, id) ==
  [id |-> id, room |-> payload.room, text |-> payload.text,
   author |-> payload.author,
   meta |-> IF Truthy(payload.meta) THEN payload.meta ELSE Null]

BuildMessage(s, payload, id) ==
  [id |-> id, room |-> payload.room, text |-> payload.text,
   author |-> username[s],
   meta |-> IF Truthy(payload.meta) THEN payload.meta ELSE Null]

\* the "message" handler (no await inside: one step)
Message(s, payload) ==
  /\ Dispatchable(s)
  /\ IF ~Truthy(payload.room) \/ ~Truthy(payload.text)
     THEN /\ last' = [NoLast EXCEPT !.op = "message", !.s = s, !.room = payload.room,
                        !.payload = payload, !.acked = TRUE, !.ok = FALSE]
          /\ UNCHANGED <<roomHistory, nextId, sent>>
     ELSE LET msg == BuildMessage(s, payload, nextId + 1)
          IN /\ roomHistory' = pushRoomMessage(roomHistory, payload.room, msg)
             /\ nextId' = nextId + 1
             /\ sent' = Append(sent, msg)
             /\ last' = [NoLast EXCEPT !.op = "message", !.s = s, !.room = payload.room,
                           !.payload = payload, !.acked = TRUE, !.ok = TRUE,
                           !.msg = msg,
                           !.wasMember = s \in rooms[payload.room],
                           !.sockets = rooms[payload.room],
                           !.emits = {Emit("message", payload.room, username[s], msg,
                                           InRoom(rooms, conn, payload.room))}]
  /\ UNCHANGED <<conn, auth, username, rooms, pending, crashed>>

\* ----------------------------------------------------------------- typing
\* the "typing" handler: destructuring an undefined payload throws, and
\* nothing catches it
Typing(s, payload) ==
  /\ Dispatchable(s)
  /\ IF payload.t = "undefined"
     THEN /\ crashed' = TRUE
          /\ last' = [NoLast EXCEPT !.op = "typing_throw", !.s = s]
     ELSE /\ crashed' = crashed
          /\ last' = [NoLast EXCEPT !.op = "typing", !.s = s, !.room = payload.room,
                        !.wasMember = s \in rooms[payload.room],
                        !.emits = IF ~Truthy(payload.room) THEN {}
                                  ELSE {Emit("typing", payload.room, username[s], NoMsg,
                                             ToRoom(rooms, conn, payload.room, s))}]
  /\ UNCHANGED <<conn, auth, username, rooms, roomHistory, pending, nextId, sent>>

\* ---------------------------------------------------------------- history
History(s, room) ==
  /\ Dispatchable(s)
  /\ last' = [NoLast EXCEPT !.op = "history", !.s = s, !.room = room,
                !.acked = TRUE, !.ok = TRUE, !.history = roomHistory[room]]
  /\ UNCHANGED <<conn, auth, username, rooms, roomHistory, pending, nextId, sent, crashed>>

\* ------------------------------------------------------------- disconnect
\* the rooms the "disconnect" handler walks: socket.rooms as it is when the
\* handler runs, without the room named by the socket's id
DisconnectRooms(rms, s) == SocketRooms(rms, s) \ {SocketId(s)}

\* a close that also deletes the history of the rooms it empties
DisconnectCleans(s) ==
  /\ ~crashed
  /\ conn[s] = "connected"
  /\ LET left == DelAll(rooms, s)
         gone == [conn EXCEPT ![s] = "disconnected"]
     IN /\ rooms' = left
        /\ conn' = gone
        /\ roomHistory' = [r \in RoomKeys |-> IF left[r] = {} THEN <<>> ELSE roomHistory[r]]
        /\ last' = [NoLast EXCEPT !.op = "disconnect", !.s = s,
                      !.wasIn = SocketRooms(rooms, s) \ {SocketId(s)},
                      !.emits = {Emit("user_left", r, username[s], NoMsg,
                                      ToRoom(left, gone, r, s))
                                 : r \in DisconnectRooms(left, s)}]
  /\ UNCHANGED <<auth, username, pending, nextId, sent, crashed>>

\* the socket closes: it leaves all its rooms and is removed from the
\* namespace, then "disconnect" is emitted and the handler runs
Disconnect(s) ==
  /\ ~crashed
  /\ conn[s] = "connected"
  /\ LET left == DelAll(rooms, s)
         gone == [conn EXCEPT ![s] = "disconnected"]
     IN /\ rooms' = left
        /\ conn' = gone
        /\ last' = [NoLast EXCEPT !.op = "disconnect", !.s = s,
                      !.wasIn = SocketRooms(rooms, s) \ {SocketId(s)},
                      !.emits = {Emit("user_left", r, username[s], NoMsg,
                                      ToRoom(left, gone, r, s))
                                 : r \in DisconnectRooms(left, s)}]
  /\ UNCHANGED <<auth, username, roomHistory, pending, nextId, sent, crashed>>

\* ------------------------------------------------------------------ logs
\* leaveLog follows the segments: a "leave" start opens a chain (or goes on
\* with the chain of the same socket and room), its own segments keep it,
\* its ack is recorded next to the ack before it, anything else ends it
TrackLeave ==
  leaveLog' =
    IF last'.op = "leave"
    THEN IF leaveLog.s = last'.s /\ leaveLog.room = last'.room /\ leaveLog.acks > 0
         THEN leaveLog
         ELSE [NoLeave EXCEPT !.s = last'.s, !.room = last'.room]
    ELSE IF last'.op = "leave_emit" /\ leaveLog.s = last'.s /\ leaveLog.room = last'.room
    THEN leaveLog
    ELSE IF last'.op = "leave_ack" /\ leaveLog.s = last'.s /\ leaveLog.room = last'.room
    THEN [leaveLog EXCEPT !.acks = IF @ = 0 THEN 1 ELSE 2,
                          !.ok = last'.ok,
                          !.memberCount = last'.memberCount,
                          !.members = rooms'[last'.room],
                          !.wasMember = last'.wasMember,
                          !.firstWasMember = leaveLog.wasMember,
                          !.firstOk = leaveLog.ok,
                          !.firstCount = leaveLog.memberCount,
                          !.firstMembers = leaveLog.members]
    ELSE NoLeave

\* inbox follows the emits: a "message" event is appended to the inbox of
\* every socket it is written to
TrackInbox ==
  inbox' =
    [s \in Sessions |->
       LET got == {e \in last'.emits : e.event = "message" /\ s \in e.to}
       IN IF got = {} THEN inbox[s]
          ELSE Append(inbox[s], (CHOOSE e \in got : TRUE).msg)]

\* --------------------------------------------------------- specifications
\* bound of Spec and SpecHist: a socket starts a "join" or a "leave" only
\* while none of its own is suspended (those of other sockets may be)
Idle(s) == \A q \in pending : q.s # s

\* Spec keeps the leave log
ObserveLeave == TrackLeave /\ UNCHANGED inbox

Next ==
  \/ \E s \in Sessions : \E a \in AuthInputs(s) : Connect(s, a) /\ ObserveLeave
  \/ \E s \in Sessions, r \in JoinInputs : Idle(s) /\ JoinStart(s, r) /\ ObserveLeave
  \/ \E s \in Sessions, r \in LeaveInputs : Idle(s) /\ LeaveStart(s, r) /\ ObserveLeave
  \/ \E p \in pending : JoinResume(p) /\ ObserveLeave
  \/ \E p \in pending : LeaveEmit(p) /\ ObserveLeave
  \/ \E p \in pending : LeaveAck(p) /\ ObserveLeave
  \/ \E s \in Sessions, p \in MessagePayloads : nextId < MaxMsgs /\ Message(s, p) /\ ObserveLeave
  \/ \E s \in Sessions, p \in TypingPayloads : Typing(s, p) /\ ObserveLeave
  \/ \E s \in Sessions, r \in HistoryInputs : History(s, r) /\ ObserveLeave
  \/ \E s \in Sessions : Disconnect(s) /\ ObserveLeave

Spec == Init /\ [][Next]_vars

\* The history at its limit: one room, one text, one user name, as many
\* messages as it takes to pass ROOM_HISTORY_LIMIT, and the other requests
\* in between.
HistAuth == AuthStr(<<"a">>)
HistPayload == Payload(R1, Str("hi"), Undefined, <<>>)

\* SpecHist keeps no log but sent
NoLogs == UNCHANGED <<leaveLog, inbox>>

NextHist ==
  \/ \E s \in Sessions : Connect(s, HistAuth) /\ NoLogs
  \/ \E s \in Sessions : Idle(s) /\ pending = {} /\ JoinStart(s, R1) /\ NoLogs
  \/ \E s \in Sessions : Idle(s) /\ pending = {} /\ LeaveStart(s, R1) /\ NoLogs
  \/ \E p \in pending : JoinResume(p) /\ NoLogs
  \/ \E p \in pending : LeaveEmit(p) /\ NoLogs
  \/ \E p \in pending : LeaveAck(p) /\ NoLogs
  \/ \E s \in Sessions : nextId < MaxHistMsgs /\ Message(s, HistPayload) /\ NoLogs
  \/ \E s \in Sessions : Typing(s, TypingPayload(R1, Str("y"))) /\ NoLogs
  \/ \E s \in Sessions : History(s, R1) /\ NoLogs
  \/ \E s \in Sessions : Disconnect(s) /\ NoLogs

SpecHist == Init /\ [][NextHist]_vars

\* The malformed requests: every kind of user name at the handshake, and
\* rooms, texts and payloads that are missing, empty or of another type.
BadAuthInputs(s) ==
  {AuthUndefined, AuthNum, AuthStr(<<>>), AuthStr(<<" ">>),
   IF s = "s1" THEN AuthStr(<<"a">>) ELSE AuthStr(<<" ", "b", " ">>)}
BadJoinInputs == {R1, Str(""), Undefined, Num("7")}
BadLeaveInputs == {R1, Undefined}
BadHistoryInputs == {R1, Undefined}
BadMessagePayloads ==
  {NoPayload,
   Payload(Undefined, Str("hi"), Undefined, <<>>),
   Payload(Str(""), Str("hi"), Undefined, <<>>),
   Payload(Num("7"), Str("hi"), Undefined, <<>>),
   Payload(R1, Undefined, Undefined, <<>>),
   Payload(R1, Str(""), Undefined, <<>>),
   Payload(R1, Num("7"), Undefined, <<>>),
   Payload(R1, Str("hi"), Undefined, <<>>)}
BadTypingPayloads ==
  {NoTypingPayload, TypingPayload(Undefined, Str("y")), TypingPayload(R1, Undefined)}

NextBad ==
  \/ \E s \in Sessions : \E a \in BadAuthInputs(s) : Connect(s, a) /\ NoLogs
  \/ \E s \in Sessions, r \in BadJoinInputs : Idle(s) /\ JoinStart(s, r) /\ NoLogs
  \/ \E s \in Sessions, r \in BadLeaveInputs : Idle(s) /\ LeaveStart(s, r) /\ NoLogs
  \/ \E p \in pending : JoinResume(p) /\ NoLogs
  \/ \E p \in pending : LeaveEmit(p) /\ NoLogs
  \/ \E p \in pending : LeaveAck(p) /\ NoLogs
  \/ \E s \in Sessions, p \in BadMessagePayloads :
       nextId < MaxMsgs /\ Message(s, p) /\ NoLogs
  \/ \E s \in Sessions, p \in BadTypingPayloads : Typing(s, p) /\ NoLogs
  \/ \E s \in Sessions, r \in BadHistoryInputs : History(s, r) /\ NoLogs
  \/ \E s \in Sessions : Disconnect(s) /\ NoLogs

SpecBad == Init /\ [][NextBad]_vars

\* Two senders in one room, with what each socket is sent kept in its inbox.
OrderAuth(s) == IF s = "s1" THEN AuthStr(<<"a">>) ELSE AuthStr(<<"b">>)
OrderPayload == Payload(R1, Str("hi"), Undefined, <<>>)
ObserveInbox == TrackInbox /\ UNCHANGED leaveLog

NextOrder ==
  \/ \E s \in Sessions : Connect(s, OrderAuth(s)) /\ ObserveInbox
  \/ \E s \in Sessions : Idle(s) /\ JoinStart(s, R1) /\ ObserveInbox
  \/ \E s \in Sessions : Idle(s) /\ LeaveStart(s, R1) /\ ObserveInbox
  \/ \E p \in pending : JoinResume(p) /\ ObserveInbox
  \/ \E p \in pending : LeaveEmit(p) /\ ObserveInbox
  \/ \E p \in pending : LeaveAck(p) /\ ObserveInbox
  \/ \E s \in Sessions : nextId < MaxOrderMsgs /\ Message(s, OrderPayload) /\ ObserveInbox
  \/ \E s \in Sessions : Disconnect(s) /\ ObserveInbox

SpecOrder == Init /\ [][NextOrder]_vars

\* ------------------------------------------------------------- properties
Range(seq) == {seq[i] : i \in 1..Len(seq)}
Min(a, b) == IF a < b THEN a ELSE b

\* the messages pushed for `room`, in push order
Accepted(room) == SelectSeq(sent, LAMBDA m : m.room = room)

\* the last n elements of seq
LastN(seq, n) == SubSeq(seq, Len(seq) - n + 1, Len(seq))

\* C1: in every reachable state every room's stored history holds at most
\* ROOM_HISTORY_LIMIT messages.
C1_HistoryBounded ==
  \A r \in RoomKeys : Len(roomHistory[r]) <= ROOM_HISTORY_LIMIT

\* a full history that has already evicted
C1_Witness ==
  /\ Len(roomHistory[R1]) = ROOM_HISTORY_LIMIT
  /\ Len(Accepted(R1)) > ROOM_HISTORY_LIMIT

\* C2: a "history" request is answered with exactly the last min(n, K) of
\* the n messages accepted for the room, in the order they were accepted.
C2_HistoryIsLastK ==
  (last.op = "history" /\ last.ok) =>
     last.history = LastN(Accepted(last.room),
                          Min(Len(Accepted(last.room)), ROOM_HISTORY_LIMIT))

\* the answer after K+1 messages: the first is gone, the other K remain
C2_Witness ==
  /\ last.op = "history"
  /\ Len(Accepted(last.room)) = ROOM_HISTORY_LIMIT + 1
  /\ Len(last.history) = ROOM_HISTORY_LIMIT
  /\ last.history[1] = Accepted(last.room)[2]
  /\ last.history[ROOM_HISTORY_LIMIT] = Accepted(last.room)[ROOM_HISTORY_LIMIT + 1]

\* C3: a message acknowledged with ok:true is in its room's history from
\* the acknowledgment on, and a step removes a message from a history only
\* when it is the oldest of a full history and the step accepts another
\* message for that room.
C3_KeptUntilEvictedStep ==
  /\ (last'.op = "message" /\ last'.ok) =>
        last'.msg \in Range(roomHistory'[last'.room])
  /\ \A r \in RoomKeys :
        \/ roomHistory'[r] = roomHistory[r]
        \/ Range(roomHistory[r]) \subseteq Range(roomHistory'[r])
        \/ /\ Len(roomHistory[r]) = ROOM_HISTORY_LIMIT
           /\ last'.op = "message" /\ last'.ok /\ last'.room = r
           /\ Range(Tail(roomHistory[r])) \subseteq Range(roomHistory'[r])

C3_KeptUntilEvicted == [][C3_KeptUntilEvictedStep]_vars

\* a disconnect with a full history that has already evicted
C3_Witness ==
  /\ last.op = "disconnect"
  /\ last.wasIn = {R1}
  /\ Len(roomHistory[R1]) = ROOM_HISTORY_LIMIT
  /\ Len(Accepted(R1)) > ROOM_HISTORY_LIMIT

\* C4: every accepted message is delivered to its sender and to every
\* member of its room at the time of the send.
C4_SenderAndMembersReceive ==
  (last.op = "message" /\ last.ok) =>
     \E e \in last.emits :
        /\ e.event = "message"
        /\ e.msg = last.msg
        /\ ({last.s} \cup last.sockets) \subseteq e.to

\* C5: a "message" event for a room is delivered to members of that room
\* only.
C5_OnlyMembersReceive ==
  \A e \in last.emits :
     e.event = "message" => e.to \subseteq rooms[e.room]

\* a message to R1 from its only member while the other socket is in R2
C5_Witness ==
  /\ last.op = "message" /\ last.ok /\ last.room = R1
  /\ rooms[R1] = {last.s}
  /\ \E o \in rooms[R2] : o # last.s
  /\ \A e \in last.emits : e.to = {last.s}

\* C6: the history entry of an accepted message has the room and the text
\* of the request and, as author, the trimmed user name of the sender's
\* handshake, whatever the payload says.
C6_EntryFields ==
  (last.op = "message" /\ last.ok) =>
     LET h == roomHistory[last.room]
         m == h[Len(h)]
     IN /\ m = last.msg
        /\ m.author = Trim(auth[last.s].v)
        /\ m.room = last.payload.room
        /\ m.text = last.payload.text

\* a sender admitted with a padded name whose payload names another author
C6_Witness ==
  /\ last.op = "message" /\ last.ok
  /\ auth[last.s] = AuthStr(<<" ", "b">>)
  /\ last.payload.author = <<"z">>
  /\ last.msg.author = <<"b">>

\* C7: every member of every room is a connected socket.
C7_MembersConnected ==
  \A r \in RoomKeys : \A s \in rooms[r] : conn[s] = "connected"

\* a join that was suspended at its await when its socket disconnected
C7_Witness ==
  /\ last.op = "join_ack" /\ last.ok
  /\ conn[last.s] = "disconnected"
  /\ last.s \in last.sockets

\* C8: when a socket disconnects, every socket remaining in a room it was
\* in receives exactly one "user_left" for that room.
C8_OneUserLeftPerRoom ==
  (last.op = "disconnect") =>
     \A r \in last.wasIn : \A peer \in rooms[r] :
        Cardinality({e \in last.emits :
                       e.event = "user_left" /\ e.room = r /\ peer \in e.to}) = 1

\* C9: the member count of a join acknowledgment counts the joiner: the
\* set it is taken from is collected after the joiner's own membership
\* write, whatever runs during the await.
C9_CountIncludesSelf ==
  /\ (last.op = "join_ack" /\ last.ok) =>
        /\ last.s \in last.sockets
        /\ last.memberCount >= 1
        /\ last.memberCount <= Cardinality(Sessions)
  /\ \A p \in pending :
        p.op = "join" =>
           /\ p.s \in p.sockets
           /\ conn[p.s] = "connected" => p.s \in rooms[p.room]

\* two joins of one empty room in flight together: the later one is
\* acknowledged first with 2, the earlier one holds 1, the room has 2
C9_Witness ==
  /\ last.op = "join_ack" /\ last.memberCount = 2
  /\ Cardinality(rooms[last.room]) = 2
  /\ \E p \in pending :
        p.op = "join" /\ p.room = last.room /\ Cardinality(p.sockets) = 1

\* C10: a leave request of a socket that is not in the room emits no
\* "user_left" to the members of the room.
C10_NoUserLeftFromNonMember ==
  (last.op = "leave_emit" /\ ~last.wasMember) =>
     \A e \in last.emits : e.to = {}

\* C11: when one socket's leave(R) runs twice back to back, the second is
\* acknowledged ok:true with the member count of the first, and R's member
\* set is what the first left.
C11_LeaveTwiceSame ==
  leaveLog.acks = 2 =>
     /\ leaveLog.ok /\ leaveLog.firstOk
     /\ leaveLog.memberCount = leaveLog.firstCount
     /\ leaveLog.members = leaveLog.firstMembers

\* a member leaves a room another socket stays in, then leaves it again
C11_Witness ==
  /\ leaveLog.acks = 2
  /\ leaveLog.firstWasMember /\ ~leaveLog.wasMember
  /\ leaveLog.memberCount = 1
  /\ leaveLog.s \notin leaveLog.members

\* a user name that is missing, not a string, or empty after trimming
ClaimedInvalid(a) == a.t # "string" \/ Trim(a.v) = <<>>

\* C12: a connection whose user name is missing, not a string or empty
\* after trimming is refused: it gets no session, runs no handler and is in
\* no room; an admitted socket's user name is the trimmed claimed name.
C12_Admission ==
  \A s \in Sessions :
     conn[s] # "new" =>
        IF ClaimedInvalid(auth[s])
        THEN /\ conn[s] = "refused"
             /\ username[s] = <<>>
             /\ \A r \in RoomKeys : s \notin rooms[r]
             /\ \A p \in pending : p.s # s
             /\ last.s = s => last.op = "refused"
             /\ \A e \in last.emits : s \notin e.to
        ELSE /\ conn[s] \in {"connected", "disconnected"}
             /\ username[s] = Trim(auth[s].v)

\* a number for a name is refused while a padded name is admitted, trimmed,
\* and joins a room
C12_Witness ==
  /\ conn["s1"] = "refused" /\ auth["s1"] = AuthNum
  /\ auth["s2"] = AuthStr(<<" ", "b", " ">>) /\ username["s2"] = <<"b">>
  /\ rooms[R1] = {"s2"}

\* C13: no request, however malformed, takes the server down.
C13_MalformedHarmless == ~crashed

\* message arguments that are missing, empty or not strings
InvalidMessageArgs(p) ==
  \/ p.t # "object"
  \/ ~IsString(p.room) \/ p.room.v = ""
  \/ ~IsString(p.text) \/ p.text.v = ""

\* C14: a message request with invalid arguments is acknowledged with
\* ok:false, pushes nothing to a history and broadcasts nothing.
C14_InvalidMessageRejected ==
  (last.op = "message" /\ InvalidMessageArgs(last.payload)) =>
     /\ last.acked /\ ~last.ok
     /\ last.msg = NoMsg
     /\ last.emits = {}

\* a room name that is empty or not a string
InvalidRoomName(r) == r.t # "string" \/ r.v = ""

\* C15: a join request whose room name is empty or not a string is
\* acknowledged with ok:false, changes no membership and emits nothing.
C15_InvalidJoinStep ==
  (last'.op = "join" /\ InvalidRoomName(last'.room)) =>
     /\ last'.acked /\ ~last'.ok
     /\ last'.emits = {}
     /\ rooms' = rooms
     /\ pending' = pending
     /\ roomHistory' = roomHistory
     /\ conn' = conn

C15_InvalidJoinRejected == [][C15_InvalidJoinStep]_vars

\* a join of the room 7 is refused while another socket is in a room
C15_Witness ==
  /\ last.op = "join" /\ last.room = Num("7")
  /\ last.acked /\ ~last.ok
  /\ \E o \in rooms[R1] : o # last.s

\* C16: a join of a room by a socket that is already in it leaves the
\* room's member set as it was, and the count its acknowledgment will carry
\* is the size of that set: the socket is counted once.
C16_RejoinStep ==
  (last'.op = "join" /\ last'.wasMember) =>
     /\ rooms' = rooms
     /\ \A p \in pending' \ pending :
           /\ p.sockets = rooms[last'.room]
           /\ last'.s \in p.sockets

C16_JoinIdempotent == [][C16_RejoinStep]_vars

\* the acknowledgment of a second join of a room of two: the count is 2
C16_Witness ==
  /\ last.op = "join_ack" /\ last.wasMember
  /\ last.memberCount = 2
  /\ rooms[last.room] = Sessions

PresenceEvents == {"user_joined", "user_left", "typing"}

\* C17: a "user_joined", "user_left" or "typing" event is never written to
\* the socket whose request caused it, and only to sockets that are in the
\* named room when it is emitted.
C17_ActorExcluded ==
  \A e \in last.emits :
     e.event \in PresenceEvents =>
        /\ last.s \notin e.to
        /\ e.to \subseteq rooms[e.room]

\* a member of a room of two types: the event goes to the other one only
C17_Witness ==
  /\ last.op = "typing" /\ last.wasMember
  /\ rooms[last.room] = Sessions
  /\ \E e \in last.emits : e.event = "typing" /\ e.to = Sessions \ {last.s}

\* C19: only an accepted message changes a stored history: join, leave,
\* typing, history and disconnect leave every room's history as it was, and
\* a join or history acknowledgment returns the room's stored history, the
\* last messages accepted in the room, whoever is still a member.
C19_HistoryKeptStep ==
  /\ last'.op # "message" => roomHistory' = roomHistory
  /\ last'.op \in {"join_ack", "history"} =>
        /\ last'.history = roomHistory[last'.room]
        /\ last'.history =
             LastN(Accepted(last'.room),
                   Min(Len(Accepted(last'.room)), ROOM_HISTORY_LIMIT))

C19_HistoryOutlivesMembers == [][C19_HistoryKeptStep]_vars

\* the author of a room's message has disconnected, the room was empty, and
\* a socket that joins it afterwards is handed the message
C19_Witness ==
  /\ last.op = "join_ack" /\ ~last.wasMember
  /\ last.sockets = {last.s}
  /\ Len(last.history) = 1
  /\ last.history[1].room = last.room
  /\ \E o \in Sessions \ {last.s} :
        conn[o] = "disconnected" /\ last.history[1].author = username[o]

\* the place of message m in seq (0 when it is not there)
IndexOf(seq, m) ==
  IF m \in Range(seq) THEN CHOOSE i \in 1..Len(seq) : seq[i] = m ELSE 0

\* C18: two messages of one room that a socket was sent, and that are both
\* in the room's history, were sent to it in the order the history has them.
C18_HistoryOrderIsDeliveryOrder ==
  \A s \in Sessions :
     \A i, j \in 1..Len(inbox[s]) :
        LET a == inbox[s][i]
            b == inbox[s][j]
            h == roomHistory[a.room]
        IN (a.room = b.room /\ a \in Range(h) /\ b \in Range(h)
               /\ IndexOf(h, a) < IndexOf(h, b)) => i < j

\* a socket was sent two messages of one room, from two senders
C18_Witness ==
  \E s \in Sessions :
     /\ Len(inbox[s]) = 2
     /\ inbox[s][1].room = inbox[s][2].room
     /\ inbox[s][1].author # inbox[s][2].author
     /\ inbox[s][1] \in Range(roomHistory[R1])
     /\ inbox[s][2] \in Range(roomHistory[R1])

\* C20: the history in a join's acknowledgment holds every message accepted
\* in the room so far that is not evicted, and an accepted message is sent to
\* every socket that is in the room, a socket whose join is not
\* acknowledged yet included.
C20_NoMessageMissedStep ==
  /\ (last'.op = "join_ack" /\ last'.ok) =>
        /\ last'.history =
             LastN(Accepted(last'.room),
                   Min(Len(Accepted(last'.room)), ROOM_HISTORY_LIMIT))
        /\ sent' = sent
  /\ (last'.op = "message" /\ last'.ok) =>
        \A s \in Sessions :
           s \in rooms[last'.room] => inbox'[s] = Append(inbox[s], last'.msg)

C20_NoMessageMissed == [][C20_NoMessageMissedStep]_vars

\* a socket joins a room that has a message; a second message is accepted
\* while the join awaits: the socket is sent the second, and the
\* acknowledgment's history has both
C20_Witness ==
  /\ last.op = "join_ack" /\ ~last.wasMember
  /\ Len(last.history) = 2
  /\ inbox[last.s] = <<last.history[2]>>

====
